---- MODULE Spec2Model ----
(***************************************************************************)
(* A model of graphql-transform: the value serializer, the selection       *)
(* transformer, the fragment dependency collector, the document            *)
(* transformer (transformers.go) and the build loop of buildTargets.       *)
(*                                                                         *)
(* Go strings are sequences of one-character strings, so that formatting   *)
(* and re-parsing work on the text itself.  A Go slice is a record         *)
(* [isNil, elems], so that an absent (nil) slice differs from a present,   *)
(* empty one.  A (value, error) result is a record [val, err]; err is      *)
(* NoErr on success, "panic" when the call aborts abnormally.              *)
(***************************************************************************)
EXTENDS Integers, Sequences, FiniteSets, TLC

VARIABLES
    mode,          \* which part of the program this behaviour exercises
    pc,            \* position of the running call
    node,          \* the ast.Value handed to transformFieldArgumentValue
    out,           \* the (string, error) it returned
    fragmentDef,   \* the ast.FragmentDefinition handed to transformFragment
    frag,          \* the (Fragment, error) it returned
    templateData,  \* the TemplateData the definitions accumulate in
    schema,        \* the schema text handed to transformGraphql
    err,           \* the error returned (by transformGraphql, by buildTargets)
    target,        \* the configTarget handed to buildTargets
    files,         \* the file system: the text of the file at each path
    visitedFiles,  \* the paths transformed so far
    globIdx,       \* the index in target.SchemaFile of the glob being walked
    walk,          \* the files fs.WalkDir has yet to hand to the callback
    printed,       \* the paths printed as " > adding: ..."
    output,        \* the state of target.OutputFile
    operationDef,  \* the ast.OperationDefinition handed to transformOperation
    operationOut,  \* the (Operation, error) it returned
    str,           \* the identifier handed to the case helpers
    words,         \* what splitStringByCase returned for it
    camel,         \* what camelCase returned for it
    pascal         \* what pascalCase returned for it

valueVars == <<node, out>>
fragmentVars == <<fragmentDef, frag>>
documentVars == <<templateData, schema, err>>
buildVars == <<target, files, visitedFiles, globIdx, walk, printed, output>>
operationVars == <<operationDef, operationOut>>
caseVars == <<str, words, camel, pascal>>
vars == <<mode, pc, node, out, fragmentDef, frag, templateData, schema, err,
          target, files, visitedFiles, globIdx, walk, printed, output,
          operationDef, operationOut, str, words, camel, pascal>>

-----------------------------------------------------------------------------
(* Go values *)

NoErr == "nil"
Panic == "panic"

Ok(v) == [val |-> v, err |-> NoErr]
Fail(v, e) == [val |-> v, err |-> e]

\* v, err := call; if err != nil { return zero, err }; then Then(v)
Try(r, zero, Then(_)) == IF r.err # NoErr THEN Fail(zero, r.err) ELSE Then(r.val)

NilSlice == [isNil |-> TRUE, elems |-> <<>>]
Slice(s) == [isNil |-> FALSE, elems |-> s]

\* the dynamic type and content of an interface{} value
GoString(s) == [type |-> "string", s |-> s, b |-> FALSE]
GoBool(b) == [type |-> "bool", s |-> <<>>, b |-> b]
GoOther == [type |-> "other", s |-> <<>>, b |-> FALSE]

RECURSIVE Join(_, _)
Join(elems, sep) ==
    IF Len(elems) = 0 THEN <<>>
    ELSE IF Len(elems) = 1 THEN elems[1]
    ELSE elems[1] \o sep \o Join(Tail(elems), sep)

-----------------------------------------------------------------------------
(* ast.Value nodes *)

Variable(name) == [Kind |-> "Variable", Value |-> name]
EnumValue(s) == [Kind |-> "EnumValue", Value |-> GoString(s)]
BooleanValue(b) == [Kind |-> "BooleanValue", Value |-> GoBool(b)]
IntValue(s) == [Kind |-> "IntValue", Value |-> GoString(s)]
FloatValue(s) == [Kind |-> "FloatValue", Value |-> GoString(s)]
StringValue(s) == [Kind |-> "StringValue", Value |-> GoString(s)]
ListValue(items) == [Kind |-> "ListValue", Value |-> items]
ObjectField(name, value) == [Name |-> name, Value |-> value]
ObjectValue(fields) == [Kind |-> "ObjectValue", Value |-> fields]
\* a node of a kind the serializer has no case for
OtherValue == [Kind |-> "OtherValue", Value |-> GoOther]

ScalarKinds == {"EnumValue", "BooleanValue", "IntValue", "FloatValue", "StringValue"}

-----------------------------------------------------------------------------
(* transformFieldArgumentValue *)

\* the inner type switch on node.GetValue()
transformScalar(kind, val) ==
    CASE val.type = "string" -> Ok(val.s)
      [] val.type = "bool" ->
            IF val.b THEN Ok(<<"t", "r", "u", "e">>)
            ELSE Ok(<<"f", "a", "l", "e", "s">>)
      [] OTHER -> Fail(<<>>, "invalid " \o kind)

RECURSIVE transformFieldArgumentValue(_)
RECURSIVE transformListItems(_, _, _)
RECURSIVE transformListItemsPrepend(_, _, _)
RECURSIVE transformObjectFields(_, _, _)

\* transformListItems with each value put in front of the earlier ones
transformListItemsPrepend(list, i, values) ==
    IF i > Len(list) THEN Ok(values)
    ELSE Try(transformFieldArgumentValue(list[i]), <<>>,
             LAMBDA v : transformListItemsPrepend(list, i + 1, <<v>> \o values))

\* for _, item := range list
transformListItems(list, i, values) ==
    IF i > Len(list) THEN Ok(values)
    ELSE Try(transformFieldArgumentValue(list[i]), <<>>,
             LAMBDA v : transformListItems(list, i + 1, Append(values, v)))

\* for _, item := range obj
transformObjectFields(obj, i, values) ==
    IF i > Len(obj) THEN Ok(values)
    ELSE Try(transformFieldArgumentValue(obj[i].Value), <<>>,
             LAMBDA v : transformObjectFields(obj, i + 1,
                            Append(values, obj[i].Name \o <<":", " ">> \o v)))

transformFieldArgumentValue(n) ==
    CASE n.Kind = "Variable" -> Ok(<<"$">> \o n.Value)
      [] n.Kind = "ListValue" ->
            Try(transformListItems(n.Value, 1, <<>>), <<>>,
                LAMBDA values : Ok(<<"[">> \o Join(values, <<",", " ">>) \o <<"]">>))
      [] n.Kind \in ScalarKinds -> transformScalar(n.Kind, n.Value)
      [] n.Kind = "ObjectValue" ->
            Try(transformObjectFields(n.Value, 1, <<>>), <<>>,
                LAMBDA values : Ok(<<"{">> \o Join(values, <<",", " ">>) \o <<"}">>))
      [] OTHER -> Fail(<<>>, "Unknown argument value kind: " \o n.Kind)

-----------------------------------------------------------------------------
(* ast.Selection nodes, and the GraphqlField tree built from them *)

\* a pointer to an ast.Named, or nil
NilNamed == [isNil |-> TRUE, Name |-> <<>>]
Named(name) == [isNil |-> FALSE, Name |-> name]

NilSelectionSet == [isNil |-> TRUE, Selections |-> <<>>]
SelectionSet(sels) == [isNil |-> FALSE, Selections |-> sels]

Argument(name, value) == [Name |-> name, Value |-> value]
Field(name, args, selset) ==
    [Kind |-> "Field", Name |-> name, Arguments |-> args, SelectionSet |-> selset]
FragmentSpread(name) == [Kind |-> "FragmentSpread", Name |-> name]
InlineFragment(cond, selset) ==
    [Kind |-> "InlineFragment", TypeCondition |-> cond, SelectionSet |-> selset]

FieldArgument(name, value) == [Name |-> name, Value |-> value]
GraphqlField(isSpread, name, sourceType, args, subFields) ==
    [IsSpread |-> isSpread, Name |-> name, SourceType |-> sourceType,
     Arguments |-> args, SubFields |-> subFields]

RECURSIVE transformArgumentsLenient(_, _, _)
\* transformArguments leaving out an argument whose value fails
transformArgumentsLenient(args, i, acc) ==
    IF i > Len(args) THEN Ok(Slice(acc))
    ELSE transformArgumentsLenient(args, i + 1,
             IF transformFieldArgumentValue(args[i].Value).err # NoErr THEN acc
             ELSE Append(acc, FieldArgument(args[i].Name,
                                  transformFieldArgumentValue(args[i].Value).val)))

RECURSIVE transformArguments(_, _, _)
\* for _, arg := range field.Arguments
transformArguments(args, i, acc) ==
    IF i > Len(args) THEN Ok(Slice(acc))
    ELSE Try(transformFieldArgumentValue(args[i].Value), NilSlice,
             LAMBDA v : transformArguments(args, i + 1,
                            Append(acc, FieldArgument(args[i].Name, v))))

\* the block that allocates Arguments, entered whatever len(field.Arguments) is
transformFieldArgumentsAlways(field) == transformArguments(field.Arguments, 1, <<>>)

\* if len(field.Arguments) > 0 { ... }: Arguments stays nil otherwise
transformFieldArguments(field) ==
    IF Len(field.Arguments) > 0
    THEN transformArguments(field.Arguments, 1, <<>>)
    ELSE Ok(NilSlice)

RECURSIVE transformGraphqlField(_)
RECURSIVE transformSelections(_, _, _)
RECURSIVE transformSelectionsPrepend(_, _, _)

\* one selection of the loop: the GraphqlField appended for it, or the error
transformSelection(selection) ==
    CASE selection.Kind = "Field" ->
            Try(transformFieldArguments(selection), NilSlice,
                LAMBDA arguments :
                    Try(IF ~selection.SelectionSet.isNil
                        THEN transformGraphqlField(selection.SelectionSet)
                        ELSE Ok(NilSlice),
                        NilSlice,
                        LAMBDA subFields :
                            Ok(GraphqlField(FALSE, selection.Name, <<>>,
                                            arguments, subFields))))
      [] selection.Kind = "FragmentSpread" ->
            Ok(GraphqlField(TRUE, selection.Name, <<>>, NilSlice, NilSlice))
      [] selection.Kind = "InlineFragment" ->
            Try(transformGraphqlField(selection.SelectionSet), NilSlice,
                LAMBDA subFields :
                    IF selection.TypeCondition.isNil THEN Fail(NilSlice, Panic)
                    ELSE Ok(GraphqlField(TRUE, <<>>, selection.TypeCondition.Name,
                                         NilSlice, subFields)))
      [] OTHER -> Fail(NilSlice, "Unknown selection kind")

\* transformSelections with each field put in front of the earlier ones
transformSelectionsPrepend(selections, i, fields) ==
    IF i > Len(selections) THEN Ok(Slice(fields))
    ELSE Try(transformSelection(selections[i]), NilSlice,
             LAMBDA f : transformSelectionsPrepend(selections, i + 1, <<f>> \o fields))

\* for _, selection := range def.Selections
transformSelections(selections, i, fields) ==
    IF i > Len(selections) THEN Ok(Slice(fields))
    ELSE Try(transformSelection(selections[i]), NilSlice,
             LAMBDA f : transformSelections(selections, i + 1, Append(fields, f)))

transformGraphqlField(def) ==
    IF def.isNil THEN Fail(NilSlice, Panic)
    ELSE transformSelections(def.Selections, 1, <<>>)

RECURSIVE gatherNames(_, _, _)
RECURSIVE gatherFragmentDependencies(_)

\* for _, field := range fields
gatherNames(fields, i, fragmentNames) ==
    IF i > Len(fields) THEN fragmentNames
    ELSE LET field == fields[i]
             own == IF field.IsSpread /\ field.Name # <<>>
                    THEN Append(fragmentNames, field.Name)
                    ELSE fragmentNames
             all == IF Len(field.SubFields.elems) > 0
                    THEN own \o gatherFragmentDependencies(field.SubFields.elems).elems
                    ELSE own
         IN  gatherNames(fields, i + 1, all)

\* gatherFragmentDependencies returning the empty slice it built
gatherFragmentDependenciesEmpty(fields) == Slice(gatherNames(fields, 1, <<>>))

gatherFragmentDependencies(fields) ==
    LET fragmentNames == gatherNames(fields, 1, <<>>)
    IN  IF Len(fragmentNames) = 0 THEN NilSlice ELSE Slice(fragmentNames)

FragmentDefinition(name, cond, selset) ==
    [Kind |-> "FragmentDefinition", Name |-> name, TypeCondition |-> cond,
     SelectionSet |-> selset]

Fragment(name, sourceType, fields, deps) ==
    [Name |-> name, SourceType |-> sourceType, Fields |-> fields,
     FragmentDependencies |-> deps]

\* no definition is under transformation
NoDefinition == FragmentDefinition(<<>>, NilNamed, NilSelectionSet)

\* Fragment{}
ZeroFragment == Fragment(<<>>, <<>>, NilSlice, NilSlice)

transformFragment(d) ==
    Try(transformGraphqlField(d.SelectionSet), ZeroFragment,
        LAMBDA fields :
            IF d.TypeCondition.isNil THEN Fail(ZeroFragment, Panic)
            ELSE Ok(Fragment(d.Name, d.TypeCondition.Name, fields,
                             gatherFragmentDependencies(fields.elems))))

-----------------------------------------------------------------------------
(* ast.Type nodes and transformVariableType *)

NamedType(name) == [Kind |-> "Named", Name |-> name]
ListType(inner) == [Kind |-> "List", Type |-> inner]
NonNullType(inner) == [Kind |-> "NonNull", Type |-> inner]
\* a type of a kind transformVariableType has no case for
OtherType == [Kind |-> "Other"]

\* wrapType with the text in front and the text behind exchanged
wrapTypeSwapped(before, sub, after) == Fail(after \o sub.val \o before, sub.err)

\* return before + sub + after, err
wrapType(before, sub, after) == Fail(before \o sub.val \o after, sub.err)

RECURSIVE transformVariableType(_)
transformVariableType(t) ==
    CASE t.Kind = "NonNull" -> wrapType(<<>>, transformVariableType(t.Type), <<"!">>)
      [] t.Kind = "List" -> wrapType(<<"[">>, transformVariableType(t.Type), <<"]">>)
      [] t.Kind = "Named" -> Ok(t.Name)
      [] OTHER -> Fail(<<>>, "Unknown type kind")

-----------------------------------------------------------------------------
(* Operations, documents and transformGraphql *)

\* a pointer to an ast.Name, or nil
NilName == [isNil |-> TRUE, Value |-> <<>>]
Name(value) == [isNil |-> FALSE, Value |-> value]

VariableDefinition(name, type) == [Variable |-> name, Type |-> type]
OperationDefinition(operation, name, varDefs, selset) ==
    [Kind |-> "OperationDefinition", Operation |-> operation, Name |-> name,
     VariableDefinitions |-> varDefs, SelectionSet |-> selset]
\* a type system definition, e.g. type T { a: Int }
ObjectDefinition == [Kind |-> "ObjectDefinition"]

GoVariable(name, type) == [Name |-> name, Type |-> type]
Operation(name, variables, fields) ==
    [Name |-> name, Variables |-> variables, Fields |-> fields]

TemplateData(fragments, queries, mutations) ==
    [Fragments |-> fragments, Queries |-> queries, Mutations |-> mutations]

\* append(slice, x)
GoAppend(slice, x) == Slice(Append(slice.elems, x))

RECURSIVE transformVariables(_, _, _)
\* for _, varDef := range def.VariableDefinitions
transformVariables(varDefs, i, acc) ==
    IF i > Len(varDefs) THEN Ok(Slice(acc))
    ELSE Try(transformVariableType(varDefs[i].Type), Slice(acc),
             LAMBDA type : transformVariables(varDefs, i + 1,
                               Append(acc, GoVariable(varDefs[i].Variable, type))))

\* if def.SelectionSet != nil { ... }: the operation with its Fields
transformOperationFields(d, variables) ==
    Try(IF ~d.SelectionSet.isNil
        THEN transformGraphqlField(d.SelectionSet)
        ELSE Ok(NilSlice),
        Operation(d.Name.Value, variables, NilSlice),
        LAMBDA fields : Ok(Operation(d.Name.Value, variables, fields)))

\* the operation as it stands when the loop over the variables has ended
transformOperationVariables(d, vs) ==
    IF vs.err # NoErr THEN Fail(Operation(d.Name.Value, vs.val, NilSlice), vs.err)
    ELSE transformOperationFields(d, vs.val)

transformOperation(d) ==
    IF d.Name.isNil THEN Fail(Operation(<<>>, NilSlice, NilSlice), Panic)
    ELSE transformOperationVariables(d,
             IF Len(d.VariableDefinitions) > 0
             THEN transformVariables(d.VariableDefinitions, 1, <<>>)
             ELSE Ok(NilSlice))

\* the text of a schema file: malformed, or the text of these definitions
SchemaText(definitions) == [malformed |-> FALSE, Definitions |-> definitions]
MalformedText == [malformed |-> TRUE, Definitions |-> <<>>]

\* parser.Parse
Parse(source) ==
    IF source.malformed THEN Fail([Kind |-> "", Definitions |-> <<>>], "Syntax Error")
    ELSE Ok([Kind |-> "Document", Definitions |-> source.Definitions])

\* case "mutation" appending to templateData.Queries
appendMutationToQueries(td, mutation) ==
    [td EXCEPT !.Queries = GoAppend(td.Queries, mutation)]

\* templateData.Mutations = append(templateData.Mutations, mutation)
appendMutation(td, mutation) ==
    [td EXCEPT !.Mutations = GoAppend(td.Mutations, mutation)]

\* templateData.Queries = append(templateData.Queries, query)
appendQuery(td, query) ==
    [td EXCEPT !.Queries = GoAppend(td.Queries, query)]

\* the fragment put in front of templateData.Fragments
appendFragmentInFront(td, fragment) ==
    [td EXCEPT !.Fragments = Slice(<<fragment>> \o td.Fragments.elems)]

\* templateData.Fragments = append(templateData.Fragments, frag)
appendFragment(td, fragment) ==
    [td EXCEPT !.Fragments = GoAppend(td.Fragments, fragment)]

\* the default case of the definition switch passing over the definition
unknownDefinitionSkipped(td) == [td |-> td, err |-> NoErr]

\* default: return fmt.Errorf("Unknown definition kind: %s", def.GetKind())
unknownDefinition(td) == [td |-> td, err |-> "Unknown definition kind"]

\* x, err := call; if err != nil { return err }; the append otherwise
appendOrReturn(td, r, appendTo(_, _)) ==
    IF r.err # NoErr THEN [td |-> td, err |-> r.err]
    ELSE [td |-> appendTo(td, r.val), err |-> NoErr]

\* one definition of the loop: templateData after it, and the error returned
transformDefinition(td, d) ==
    CASE d.Kind = "OperationDefinition" ->
            (CASE d.Operation = "query" ->
                    appendOrReturn(td, transformOperation(d), appendQuery)
               [] d.Operation = "mutation" ->
                    appendOrReturn(td, transformOperation(d), appendMutation)
               [] OTHER -> [td |-> td, err |-> "Unknown operation kind"])
      [] d.Kind = "FragmentDefinition" ->
            appendOrReturn(td, transformFragment(d), appendFragment)
      [] OTHER -> unknownDefinition(td)

RECURSIVE transformDefinitions(_, _, _)
\* a definition's error ends the loop; the next definition is visited otherwise
nextDefinition(r, definitions, i) ==
    IF r.err # NoErr THEN r ELSE transformDefinitions(r.td, definitions, i + 1)

\* for _, def := range doc.Definitions
transformDefinitions(td, definitions, i) ==
    IF i > Len(definitions) THEN [td |-> td, err |-> NoErr]
    ELSE nextDefinition(transformDefinition(td, definitions[i]), definitions, i)

\* templateData after the call, and the error returned
transformGraphql(td, source) ==
    LET parsed == Parse(source)
    IN  IF parsed.err # NoErr THEN [td |-> td, err |-> NoErr]
        ELSE IF parsed.val.Kind # "Document"
        THEN [td |-> td, err |-> "expected document to be top-level node"]
        ELSE transformDefinitions(td, parsed.val.Definitions, 1)

-----------------------------------------------------------------------------
(* buildTargets: paths, globs, the walk and the stable sort.  A path and a  *)
(* glob are sequences of components below the working directory.          *)

GraphqlNames == {"f.graphql", "g.graphql", "q.graphql"}

\* the names of the file system in lexical order, as fs.WalkDir reads them
NameOrder == <<"a", "b", "f.graphql", "g.graphql", "notes.md", "q.graphql">>
Rank(name) == CHOOSE i \in 1..Len(NameOrder) : NameOrder[i] = name

IsWild(component) == component \in {"*", "*.graphql"}

\* path.Match on one component
MatchName(pattern, name) ==
    \/ pattern = name
    \/ pattern = "*"
    \/ pattern = "*.graphql" /\ name \in GraphqlNames

\* path.Match(absGlob, schemaFilePath): a wildcard does not cross a separator
Match(absGlob, schemaFilePath) ==
    /\ Len(absGlob) = Len(schemaFilePath)
    /\ \A i \in 1..Len(absGlob) : MatchName(absGlob[i], schemaFilePath[i])

\* filepath.Dir
Dir(p) == SubSeq(p, 1, Len(p) - 1)

RECURSIVE StripWild(_)
\* for strings.Contains(walkPath, "*") { walkPath = filepath.Dir(walkPath) }
StripWild(walkPath) ==
    IF \E i \in 1..Len(walkPath) : IsWild(walkPath[i])
    THEN StripWild(Dir(walkPath))
    ELSE walkPath

WalkPath(absGlob) == StripWild(Dir(absGlob))

RECURSIVE Before(_, _)
\* p comes before q in the walk
Before(p, q) ==
    IF Len(p) = 0 THEN Len(q) > 0
    ELSE IF Len(q) = 0 THEN FALSE
    ELSE IF p[1] = q[1] THEN Before(Tail(p), Tail(q))
    ELSE Rank(p[1]) < Rank(q[1])

RECURSIVE InWalkOrder(_)
InWalkOrder(paths) ==
    IF paths = {} THEN <<>>
    ELSE LET first == CHOOSE p \in paths : \A q \in paths \ {p} : Before(p, q)
         IN  <<first>> \o InWalkOrder(paths \ {first})

\* the files fs.WalkDir hands to the callback, in its order
WalkFiles(fileSystem, walkPath) ==
    InWalkOrder({ p \in DOMAIN fileSystem :
                    /\ Len(p) > Len(walkPath)
                    /\ SubSeq(p, 1, Len(walkPath)) = walkPath })

\* the comparison of the sort with <= for <
lessOrEqual(left, right) ==
    Len(left.FragmentDependencies.elems) <= Len(right.FragmentDependencies.elems)

\* a less function that puts the longer FragmentDependencies first
greater(left, right) ==
    Len(left.FragmentDependencies.elems) > Len(right.FragmentDependencies.elems)

\* the less function handed to sort.SliceStable
less(left, right) ==
    Len(left.FragmentDependencies.elems) < Len(right.FragmentDependencies.elems)

RECURSIVE insert(_, _)
\* for j := i; j > a && less(j, j-1); j-- { swap(j, j-1) }
insert(data, j) ==
    IF j > 1 /\ less(data[j], data[j - 1])
    THEN insert([data EXCEPT ![j] = data[j - 1], ![j - 1] = data[j]], j - 1)
    ELSE data

RECURSIVE insertionSort(_, _)
\* sort.SliceStable on a slice of at most 20 elements: one insertion sort
insertionSort(data, i) ==
    IF i > Len(data) THEN data ELSE insertionSort(insert(data, i), i + 1)

SliceStable(slice) == [slice EXCEPT !.elems = insertionSort(slice.elems, 2)]

-----------------------------------------------------------------------------
(* The value nodes the serializer is applied to: every node of at most      *)
(* MaxNodes nodes over Atoms, plus the scenarios of the documentation.     *)

MaxNodes == 4

s_val == <<"v", "a", "l">>
s_key == <<"k", "e", "y">>
s_list == <<"l", "i", "s", "t">>
DigitChar == <<"1", "2", "3", "4", "5", "6", "7", "8", "9">>

Atoms ==
    { Variable(<<"x">>), BooleanValue(TRUE), BooleanValue(FALSE),
      IntValue(<<"1">>), StringValue(s_val), OtherValue }

\* the i-th field of a generated object
FieldName(i) ==
    IF i = 1 THEN s_key ELSE IF i = 2 THEN s_list ELSE <<"f", DigitChar[i]>>

MkFields(s) == [i \in 1..Len(s) |-> ObjectField(FieldName(i), s[i])]

RECURSIVE ValuesOfSize(_)
RECURSIVE SeqsOfTotal(_)

\* the sequences of nodes that hold m nodes in all
SeqsOfTotal(m) ==
    IF m = 0 THEN {<<>>}
    ELSE UNION { { <<v>> \o rest : v \in ValuesOfSize(k), rest \in SeqsOfTotal(m - k) }
                 : k \in 1..m }

ValuesOfSize(n) ==
    IF n = 1 THEN Atoms \cup {ListValue(<<>>), ObjectValue(<<>>)}
    ELSE { ListValue(s) : s \in SeqsOfTotal(n - 1) }
         \cup { ObjectValue(MkFields(s)) : s \in SeqsOfTotal(n - 1) }

\* {key: "val", list: [1, 2]}
ScenarioD ==
    ObjectValue(<< ObjectField(s_key, StringValue(s_val)),
                   ObjectField(s_list, ListValue(<<IntValue(<<"1">>), IntValue(<<"2">>)>>)) >>)

Scenarios ==
    { ScenarioD,
      EnumValue(<<"R", "E", "D">>),
      FloatValue(<<"1", ".", "5">>),
      StringValue(<<>>),
      StringValue(<<"a", " ", "b">>),
      StringValue(<<"t", "r", "u", "e">>),
      ListValue(<<StringValue(<<"a">>), StringValue(<<"b">>)>>) }

ValueNodes == (UNION { ValuesOfSize(n) : n \in 1..MaxNodes }) \cup Scenarios

-----------------------------------------------------------------------------
(* Reading value text back: the value grammar of GraphQL, as the parser     *)
(* collaborator reads it.  Blanks and commas are insignificant.            *)

Lower == {"a", "b", "c", "d", "e", "f", "g", "h", "i", "j", "k", "l", "m",
          "n", "o", "p", "q", "r", "s", "t", "u", "v", "w", "x", "y", "z"}
Upper == {"A", "B", "C", "D", "E", "F", "G", "H", "I", "J", "K", "L", "M",
          "N", "O", "P", "Q", "R", "S", "T", "U", "V", "W", "X", "Y", "Z"}
Digits == {"0", "1", "2", "3", "4", "5", "6", "7", "8", "9"}
NameStart == Lower \cup Upper \cup {"_"}
NameChar == NameStart \cup Digits
Ignored == {" ", ","}

RECURSIVE ReadWhile(_, _, _)
\* the first index at or after i whose character is not in set
ReadWhile(s, i, set) ==
    IF i <= Len(s) /\ s[i] \in set THEN ReadWhile(s, i + 1, set) ELSE i

NoParse == [ok |-> FALSE, node |-> OtherValue, next |-> 0]
Parsed(n, next) == [ok |-> TRUE, node |-> n, next |-> next]

RECURSIVE ParseValueAt(_, _)
RECURSIVE ParseListItems(_, _, _)
RECURSIVE ParseObjectFields(_, _, _)

ParseListItems(s, i, items) ==
    LET j == ReadWhile(s, i, Ignored)
    IN  IF j > Len(s) THEN NoParse
        ELSE IF s[j] = "]" THEN Parsed(ListValue(items), j + 1)
        ELSE LET r == ParseValueAt(s, j)
             IN  IF r.ok THEN ParseListItems(s, r.next, Append(items, r.node))
                 ELSE NoParse

ParseObjectFields(s, i, fields) ==
    LET j == ReadWhile(s, i, Ignored)
    IN  IF j > Len(s) THEN NoParse
        ELSE IF s[j] = "}" THEN Parsed(ObjectValue(fields), j + 1)
        ELSE IF s[j] \notin NameStart THEN NoParse
        ELSE LET k == ReadWhile(s, j, NameChar)
                 c == ReadWhile(s, k, Ignored)
             IN  IF c > Len(s) \/ s[c] # ":" THEN NoParse
                 ELSE LET r == ParseValueAt(s, c + 1)
                      IN  IF r.ok
                          THEN ParseObjectFields(s, r.next,
                                   Append(fields, ObjectField(SubSeq(s, j, k - 1), r.node)))
                          ELSE NoParse

ParseNumber(s, j) ==
    LET d == IF s[j] = "-" THEN j + 1 ELSE j
        k == ReadWhile(s, d, Digits)
    IN  IF k = d THEN NoParse
        ELSE IF k <= Len(s) /\ s[k] = "."
        THEN LET m == ReadWhile(s, k + 1, Digits)
             IN  IF m = k + 1 THEN NoParse
                 ELSE Parsed(FloatValue(SubSeq(s, j, m - 1)), m)
        ELSE Parsed(IntValue(SubSeq(s, j, k - 1)), k)

ParseName(s, j) ==
    LET k == ReadWhile(s, j, NameChar)
        name == SubSeq(s, j, k - 1)
    IN  IF name = <<"t", "r", "u", "e">> THEN Parsed(BooleanValue(TRUE), k)
        ELSE IF name = <<"f", "a", "l", "s", "e">> THEN Parsed(BooleanValue(FALSE), k)
        ELSE Parsed(EnumValue(name), k)

ParseValueAt(s, i) ==
    LET j == ReadWhile(s, i, Ignored)
    IN  IF j > Len(s) THEN NoParse
        ELSE CASE s[j] = "$" ->
                    LET k == ReadWhile(s, j + 1, NameChar)
                    IN  IF j + 1 <= Len(s) /\ s[j + 1] \in NameStart
                        THEN Parsed(Variable(SubSeq(s, j + 1, k - 1)), k)
                        ELSE NoParse
               [] s[j] = "[" -> ParseListItems(s, j + 1, <<>>)
               [] s[j] = "{" -> ParseObjectFields(s, j + 1, <<>>)
               [] s[j] = "\"" ->
                    LET k == ReadWhile(s, j + 1, NameChar \cup Ignored \cup {".", "-"})
                    IN  IF k <= Len(s) /\ s[k] = "\""
                        THEN Parsed(StringValue(SubSeq(s, j + 1, k - 1)), k + 1)
                        ELSE NoParse
               [] s[j] \in Digits \cup {"-"} -> ParseNumber(s, j)
               [] s[j] \in NameStart -> ParseName(s, j)
               [] OTHER -> NoParse

\* the whole text is one value
ParseValueText(s) ==
    LET r == ParseValueAt(s, 1)
    IN  IF r.ok /\ ReadWhile(s, r.next, Ignored) > Len(s) THEN r ELSE NoParse

RECURSIVE ValidValue(_)
\* a node the GraphQL grammar can produce, at every level
ValidValue(n) ==
    CASE n.Kind = "Variable" -> TRUE
      [] n.Kind = "ListValue" -> \A i \in 1..Len(n.Value) : ValidValue(n.Value[i])
      [] n.Kind = "ObjectValue" -> \A i \in 1..Len(n.Value) : ValidValue(n.Value[i].Value)
      [] n.Kind = "BooleanValue" -> n.Value.type = "bool"
      [] n.Kind \in ScalarKinds -> n.Value.type = "string"
      [] OTHER -> FALSE

RECURSIVE Equivalent(_, _)
\* the same kind and the same content, at every level
Equivalent(a, b) ==
    /\ a.Kind = b.Kind
    /\ CASE a.Kind \in {"ListValue"} ->
                /\ Len(a.Value) = Len(b.Value)
                /\ \A i \in 1..Len(a.Value) : Equivalent(a.Value[i], b.Value[i])
         [] a.Kind = "ObjectValue" ->
                /\ Len(a.Value) = Len(b.Value)
                /\ \A i \in 1..Len(a.Value) :
                      /\ a.Value[i].Name = b.Value[i].Name
                      /\ Equivalent(a.Value[i].Value, b.Value[i].Value)
         [] OTHER -> a.Value = b.Value

-----------------------------------------------------------------------------
(* The fragment definitions the fragment builder is applied to: every        *)
(* selection set of at most MaxSelections selections, nested ones counted. *)

MaxSelections == 3

s_id == <<"i", "d">>
s_name == <<"n", "a", "m", "e">>
s_email == <<"e", "m", "a", "i", "l">>
s_user == <<"u", "s", "e", "r">>
s_User == <<"U", "s", "e", "r">>
s_F == <<"F">>
s_G == <<"G">>
s_UserFields == <<"U", "s", "e", "r", "F", "i", "e", "l", "d", "s">>

OneArgument == <<Argument(<<"a">>, Variable(<<"x">>))>>
BadArguments == <<Argument(<<"a">>, IntValue(<<"1">>)), Argument(<<"b">>, ListValue(<<OtherValue>>))>>

\* selections without a selection set of their own
LeafSelections ==
    { Field(s_id, <<>>, NilSelectionSet),
      Field(s_name, <<>>, NilSelectionSet),
      Field(s_id, OneArgument, NilSelectionSet),
      Field(s_id, BadArguments, NilSelectionSet),
      FragmentSpread(s_F),
      FragmentSpread(s_G) }

\* the selections that wrap the selection set ss
Wrappers(ss) ==
    { Field(s_user, <<>>, ss),
      Field(s_user, OneArgument, ss),
      InlineFragment(Named(s_User), ss),
      InlineFragment(NilNamed, ss) }

RECURSIVE SelectionsOfSize(_)
RECURSIVE SelectionSeqsOfTotal(_)

\* the non-empty sequences of selections that hold m selections in all
SelectionSeqsOfTotal(m) ==
    UNION { { <<v>> \o rest : v \in SelectionsOfSize(k),
                              rest \in IF m = k THEN {<<>>} ELSE SelectionSeqsOfTotal(m - k) }
            : k \in 1..m }

SelectionsOfSize(n) ==
    IF n = 1 THEN LeafSelections
    ELSE UNION { Wrappers(SelectionSet(ss)) : ss \in SelectionSeqsOfTotal(n - 1) }

\* fragment UserFields on User { id name ... on User { email } ... UserFields }
ScenarioB ==
    SelectionSet(<< Field(s_id, <<>>, NilSelectionSet),
                    Field(s_name, <<>>, NilSelectionSet),
                    InlineFragment(Named(s_User),
                        SelectionSet(<<Field(s_email, <<>>, NilSelectionSet)>>)),
                    FragmentSpread(s_UserFields) >>)

\* { user(a: $x) { id } ...F ... on User { name } }
ScenarioShapes ==
    SelectionSet(<< Field(s_user, OneArgument,
                        SelectionSet(<<Field(s_id, <<>>, NilSelectionSet)>>)),
                    FragmentSpread(s_F),
                    InlineFragment(Named(s_User),
                        SelectionSet(<<Field(s_name, <<>>, NilSelectionSet)>>)) >>)

SelectionSets ==
    { SelectionSet(ss) : ss \in UNION { SelectionSeqsOfTotal(m) : m \in 1..MaxSelections } }
    \cup {ScenarioB, ScenarioShapes}

FragmentDefinitions ==
    { FragmentDefinition(s_F, Named(s_User), ss) : ss \in SelectionSets \ {ScenarioB} }
    \cup {FragmentDefinition(s_UserFields, Named(s_User), ScenarioB)}

-----------------------------------------------------------------------------
(* The documents transformGraphql is applied to: every sequence of at most  *)
(* MaxDefinitions definitions of DefinitionPool, and malformed text.       *)

MaxDefinitions == 3

s_Q == <<"Q">>
s_Q2 == <<"Q", "2">>
s_M == <<"M">>
s_M2 == <<"M", "2">>
s_S == <<"S">>
s_B == <<"B">>
s_I == <<"I">>
s_ids == <<"i", "d", "s">>
s_ID == <<"I", "D">>

IdOnly == SelectionSet(<<Field(s_id, <<>>, NilSelectionSet)>>)
NameOnly == SelectionSet(<<Field(s_name, <<>>, NilSelectionSet)>>)

\* query Q($ids: [ID!]!) { user(a: $x) { ...F } }
QueryQ ==
    OperationDefinition("query", Name(s_Q),
        <<VariableDefinition(s_ids, NonNullType(ListType(NonNullType(NamedType(s_ID)))))>>,
        SelectionSet(<<Field(s_user, OneArgument, SelectionSet(<<FragmentSpread(s_F)>>))>>))
\* query Q2 { name }
QueryQ2 == OperationDefinition("query", Name(s_Q2), <<>>, NameOnly)
\* { id }
AnonymousQuery == OperationDefinition("query", NilName, <<>>, IdOnly)
\* mutation M { id }
MutationM == OperationDefinition("mutation", Name(s_M), <<>>, IdOnly)
\* mutation M2 { name }
MutationM2 == OperationDefinition("mutation", Name(s_M2), <<>>, NameOnly)
\* subscription S { id }
SubscriptionS == OperationDefinition("subscription", Name(s_S), <<>>, IdOnly)
\* fragment F on User { id }
FragmentF == FragmentDefinition(s_F, Named(s_User), IdOnly)
\* fragment G on User { ...F }
FragmentG == FragmentDefinition(s_G, Named(s_User), SelectionSet(<<FragmentSpread(s_F)>>))
\* fragment B on User { id(a: 1, b: [<a value of an unknown kind>]) }
FragmentB ==
    FragmentDefinition(s_B, Named(s_User),
        SelectionSet(<<Field(s_id, BadArguments, NilSelectionSet)>>))
\* fragment I on User { ... { id } }
FragmentI ==
    FragmentDefinition(s_I, Named(s_User), SelectionSet(<<InlineFragment(NilNamed, IdOnly)>>))

DefinitionPool ==
    { QueryQ, QueryQ2, AnonymousQuery, MutationM, MutationM2, SubscriptionS,
      FragmentF, FragmentG, FragmentB, FragmentI, ObjectDefinition }

RECURSIVE SeqsUpTo(_, _)
\* the sequences over S of length at most n
SeqsUpTo(S, n) ==
    IF n = 0 THEN {<<>>}
    ELSE LET shorter == SeqsUpTo(S, n - 1)
         IN  shorter \cup { Append(q, x) : q \in { r \in shorter : Len(r) = n - 1 }, x \in S }

s_T == <<"T">>
s_D == <<"D">>
\* query T($v1: [<a type of an unknown kind>]!) { id }
QueryT ==
    OperationDefinition("query", Name(s_T),
        <<VariableDefinition(<<"v", "1">>, NonNullType(ListType(OtherType)))>>,
        IdOnly)
\* mutation D { user { ... on User { id(a: 1, b: {k: [<a value of an unknown kind>]}) } } }
MutationD ==
    OperationDefinition("mutation", Name(s_D), <<>>,
        SelectionSet(<<Field(s_user, <<>>,
            SelectionSet(<<InlineFragment(Named(s_User),
                SelectionSet(<<Field(s_id,
                    <<Argument(<<"a">>, IntValue(<<"1">>)),
                      Argument(<<"b">>,
                          ObjectValue(<<ObjectField(<<"k">>, ListValue(<<OtherValue>>))>>))>>,
                    NilSelectionSet)>>))>>))>>))

\* documents in which a variable type or a deeply nested value fails
FailingTexts ==
    { SchemaText(<<QueryT>>),
      SchemaText(<<FragmentF, QueryT, MutationM>>),
      SchemaText(<<MutationD>>),
      SchemaText(<<QueryQ2, MutationD, FragmentG>>) }

SchemaTexts ==
    { SchemaText(ds) : ds \in SeqsUpTo(DefinitionPool, MaxDefinitions) }
    \cup FailingTexts
    \cup {MalformedText}

\* TemplateData as buildTargets creates it
EmptyTemplateData == TemplateData(Slice(<<>>), Slice(<<>>), Slice(<<>>))

\* TemplateData after earlier schema files
EarlierTemplateData ==
    transformGraphql(EmptyTemplateData, SchemaText(<<FragmentG, QueryQ2, MutationM>>)).td

-----------------------------------------------------------------------------
(* The serializer applied to one node *)

ValueIdle == node = OtherValue /\ out = Ok(<<>>)
FragmentIdle == fragmentDef = NoDefinition /\ frag = Ok(ZeroFragment)
DocumentIdle == templateData = EmptyTemplateData /\ schema = MalformedText /\ err = NoErr
BuildIdle ==
    /\ target = [SchemaFile |-> <<>>]
    /\ files = <<>>
    /\ visitedFiles = {}
    /\ globIdx = 0
    /\ walk = <<>>
    /\ printed = <<>>
    /\ output = "absent"
OperationIdle ==
    /\ operationDef = OperationDefinition("query", NilName, <<>>, NilSelectionSet)
    /\ operationOut = Ok(Operation(<<>>, NilSlice, NilSlice))
CaseIdle == str = <<>> /\ words = NilSlice /\ camel = <<>> /\ pascal = <<>>

ValueInit ==
    /\ mode = "value"
    /\ pc = "start"
    /\ node \in ValueNodes
    /\ out = Ok(<<>>)
    /\ FragmentIdle
    /\ DocumentIdle
    /\ BuildIdle
    /\ OperationIdle
    /\ CaseIdle

SerializeValue ==
    /\ mode = "value"
    /\ pc = "start"
    /\ out' = transformFieldArgumentValue(node)
    /\ pc' = "done"
    /\ UNCHANGED <<mode, node, fragmentVars, documentVars, buildVars, operationVars, caseVars>>

ValueNext == SerializeValue

ValueSpec == ValueInit /\ [][ValueNext]_vars

-----------------------------------------------------------------------------
(* The fragment builder applied to one fragment definition *)

FragmentInit ==
    /\ mode = "fragment"
    /\ pc = "start"
    /\ fragmentDef \in FragmentDefinitions
    /\ frag = Ok(ZeroFragment)
    /\ ValueIdle
    /\ DocumentIdle
    /\ BuildIdle
    /\ OperationIdle
    /\ CaseIdle

TransformFragment ==
    /\ mode = "fragment"
    /\ pc = "start"
    /\ frag' = transformFragment(fragmentDef)
    /\ pc' = "done"
    /\ UNCHANGED <<mode, fragmentDef, valueVars, documentVars, buildVars, operationVars, caseVars>>

FragmentNext == TransformFragment

FragmentSpec == FragmentInit /\ [][FragmentNext]_vars

-----------------------------------------------------------------------------
(* transformGraphql applied to one schema text, on a TemplateData that is   *)
(* new or holds the definitions of earlier files                           *)

DocumentInit ==
    /\ mode = "document"
    /\ pc = "start"
    /\ templateData \in {EmptyTemplateData, EarlierTemplateData}
    /\ schema \in SchemaTexts
    /\ err = NoErr
    /\ ValueIdle
    /\ FragmentIdle
    /\ BuildIdle
    /\ OperationIdle
    /\ CaseIdle

TransformGraphql ==
    /\ mode = "document"
    /\ pc = "start"
    /\ \E r \in {transformGraphql(templateData, schema)} :
          /\ templateData' = r.td
          /\ err' = r.err
    /\ pc' = "done"
    /\ UNCHANGED <<mode, schema, valueVars, fragmentVars, buildVars, operationVars, caseVars>>

DocumentNext == TransformGraphql

DocumentSpec == DocumentInit /\ [][DocumentNext]_vars

-----------------------------------------------------------------------------
(* transformOperation applied to one operation definition: a query with at  *)
(* most MaxVariables variables, each of a type of at most MaxTypeDepth      *)
(* wrappers                                                                *)

MaxTypeDepth == 2
MaxVariables == 2

RECURSIVE TypesOfDepth(_)
\* the types of at most depth wrappers
TypesOfDepth(depth) ==
    IF depth = 0 THEN {NamedType(s_ID), OtherType}
    ELSE LET inner == TypesOfDepth(depth - 1)
         IN  inner \cup {ListType(t) : t \in inner} \cup {NonNullType(t) : t \in inner}

VariableTypes == TypesOfDepth(MaxTypeDepth)

\* the name of the i-th variable of an operation: v1, v2, ...
VariableName(i) == <<"v", <<"1", "2", "3", "4", "5", "6", "7", "8", "9">>[i]>>

OperationDefinitions ==
    { OperationDefinition("query", Name(s_Q),
          [i \in 1..Len(types) |-> VariableDefinition(VariableName(i), types[i])],
          IdOnly) : types \in SeqsUpTo(VariableTypes, MaxVariables) }
    \cup {QueryQ, QueryQ2, MutationM}

OperationInit ==
    /\ mode = "operation"
    /\ pc = "start"
    /\ operationDef \in OperationDefinitions
    /\ operationOut = Ok(Operation(<<>>, NilSlice, NilSlice))
    /\ ValueIdle
    /\ FragmentIdle
    /\ DocumentIdle
    /\ BuildIdle
    /\ CaseIdle

TransformOperation ==
    /\ mode = "operation"
    /\ pc = "start"
    /\ operationOut' = transformOperation(operationDef)
    /\ pc' = "done"
    /\ UNCHANGED <<mode, operationDef, valueVars, fragmentVars, documentVars, buildVars,
                   caseVars>>

OperationNext == TransformOperation

OperationSpec == OperationInit /\ [][OperationNext]_vars

-----------------------------------------------------------------------------
(* splitStringByCase, camelCase and pascalCase, applied to one identifier:  *)
(* a string of at most MaxLen characters of CaseAlphabet, or an input of   *)
(* the tests                                                               *)

LowerLetters == <<"a", "b", "c", "d", "e", "f", "g", "h", "i", "j", "k", "l", "m",
                  "n", "o", "p", "q", "r", "s", "t", "u", "v", "w", "x", "y", "z">>
UpperLetters == <<"A", "B", "C", "D", "E", "F", "G", "H", "I", "J", "K", "L", "M",
                  "N", "O", "P", "Q", "R", "S", "T", "U", "V", "W", "X", "Y", "Z">>

IndexOf(letters, c) == CHOOSE i \in 1..Len(letters) : letters[i] = c

\* unicode.ToLower, unicode.ToUpper
ToLowerChar(c) == IF c \in Upper THEN LowerLetters[IndexOf(UpperLetters, c)] ELSE c
ToUpperChar(c) == IF c \in Lower THEN UpperLetters[IndexOf(LowerLetters, c)] ELSE c

\* strings.ToLower
ToLower(text) == [i \in 1..Len(text) |-> ToLowerChar(text[i])]

\* the isSeparator of package strings: letters, digits and _ separate no words
IsSeparator(c) == c \notin Lower \cup Upper \cup Digits \cup {"_"}

\* strings.Title leaving every letter as it is
TitleUnchanged(text) == text

\* strings.Title: the first letter of each word in upper case
Title(text) ==
    [i \in 1..Len(text) |->
        IF i = 1 \/ IsSeparator(text[i - 1]) THEN ToUpperChar(text[i]) ELSE text[i]]

\* if word != "" { words = append(words, word) }
appendWord(ws, word) == IF word # <<>> THEN Append(ws, word) ELSE ws

RECURSIVE splitChars(_, _, _, _)
\* for _, char := range str, and the append after the loop
splitChars(text, i, ws, word) ==
    IF i > Len(text) THEN appendWord(ws, word)
    ELSE IF text[i] \in Lower THEN splitChars(text, i + 1, ws, Append(word, text[i]))
    ELSE splitChars(text, i + 1, appendWord(ws, word),
                    IF text[i] \in Upper THEN <<ToLowerChar(text[i])>> ELSE <<>>)

\* the words, as the slice Go returns: nil when nothing was appended
GoWords(ws) == IF ws = <<>> THEN NilSlice ELSE Slice(ws)

splitStringByCase(text) == GoWords(splitChars(text, 1, <<>>, <<>>))

camelWords(ws) ==
    [i \in 1..Len(ws) |-> IF i = 1 THEN ToLower(ws[i]) ELSE Title(ToLower(ws[i]))]

camelCase(text) == Join(camelWords(splitStringByCase(text).elems), <<>>)

pascalWords(ws) == [i \in 1..Len(ws) |-> Title(ToLower(ws[i]))]

pascalCase(text) == Join(pascalWords(splitStringByCase(text).elems), <<>>)

MaxLen == 4

CaseAlphabet == {"a", "b", "A", "B", "_", "1"}

\* the inputs of TestSplitStringByCase, TestCamelCase and TestPascalCase
TestInputs ==
    { <<"h", "e", "l", "l", "o">>,
      <<"h", "e", "l", "l", "o", "W", "o", "r", "l", "d">>,
      <<"H", "e", "l", "l", "o", "W", "o", "r", "l", "d">>,
      <<"h", "e", "l", "l", "o", "_", "w", "o", "r", "l", "d">>,
      <<"H", "e", "l", "l", "o", "_", "W", "o", "r", "l", "d">>,
      <<"h", "e", "l", "l", "o", "H", "T", "T", "P">>,
      <<"H", "e", "l", "l", "o", "H", "T", "T", "P">>,
      <<"h", "e", "l", "l", "o", "_", "h", "t", "t", "p">> }

Strings == UNION { [1..n -> CaseAlphabet] : n \in 0..MaxLen } \cup TestInputs

CaseInit ==
    /\ mode = "case"
    /\ pc = "start"
    /\ str \in Strings
    /\ words = NilSlice
    /\ camel = <<>>
    /\ pascal = <<>>
    /\ ValueIdle
    /\ FragmentIdle
    /\ DocumentIdle
    /\ BuildIdle
    /\ OperationIdle

caseIdleVars == <<mode, str, valueVars, fragmentVars, documentVars, buildVars, operationVars>>

SplitStringByCase ==
    /\ mode = "case"
    /\ pc = "start"
    /\ words' = splitStringByCase(str)
    /\ pc' = "split"
    /\ UNCHANGED <<caseIdleVars, camel, pascal>>

CamelCase ==
    /\ mode = "case"
    /\ pc = "split"
    /\ camel' = camelCase(str)
    /\ pc' = "camel"
    /\ UNCHANGED <<caseIdleVars, words, pascal>>

PascalCase ==
    /\ mode = "case"
    /\ pc = "camel"
    /\ pascal' = pascalCase(str)
    /\ pc' = "done"
    /\ UNCHANGED <<caseIdleVars, words, camel>>

CaseNext == SplitStringByCase \/ CamelCase \/ PascalCase

CaseSpec == CaseInit /\ [][CaseNext]_vars

-----------------------------------------------------------------------------
(* buildTargets on one target.  The file system holds four files; the       *)
(* schema files hold one of SchemaFileTexts each, the target names at most *)
(* MaxGlobs globs of Globs.                                                *)

MaxGlobs == 2

s_H == <<"H">>
s_K == <<"K">>
\* fragment H on User { ...G ...F }
FragmentH ==
    FragmentDefinition(s_H, Named(s_User),
        SelectionSet(<<FragmentSpread(s_G), FragmentSpread(s_F)>>))
\* fragment K on User { name }
FragmentK == FragmentDefinition(s_K, Named(s_User), NameOnly)

SchemaFileTexts ==
    { SchemaText(<<FragmentG, FragmentF>>),
      SchemaText(<<FragmentH, QueryQ2, FragmentK>>),
      SchemaText(<<FragmentF, ObjectDefinition>>),
      MalformedText }

PathF == <<"a", "f.graphql">>
PathQ == <<"a", "q.graphql">>
PathG == <<"a", "b", "g.graphql">>
PathNotes == <<"a", "notes.md">>
SchemaPaths == {PathF, PathQ, PathG}

FileSystems ==
    { [p \in SchemaPaths \cup {PathNotes} |->
          IF p = PathNotes THEN MalformedText ELSE texts[p]]
      : texts \in [SchemaPaths -> SchemaFileTexts] }

Globs == { <<"a", "*.graphql">>, <<"a", "*", "*">>, <<"a", "q.graphql">>, <<"a", "*">> }

Targets == { [SchemaFile |-> gs] : gs \in SeqsUpTo(Globs, MaxGlobs) \ {<<>>} }

Init ==
    /\ mode = "build"
    /\ pc = "start"
    /\ target \in Targets
    /\ files \in FileSystems
    /\ templateData = EmptyTemplateData
    /\ schema = MalformedText
    /\ err = NoErr
    /\ visitedFiles = {}
    /\ globIdx = 0
    /\ walk = <<>>
    /\ printed = <<>>
    /\ output = "absent"
    /\ ValueIdle
    /\ FragmentIdle
    /\ OperationIdle
    /\ CaseIdle

idleVars == <<mode, valueVars, fragmentVars, operationVars, caseVars, target, files>>

\* the template is read and parsed, or buildTargets returns the error
ReadTemplate ==
    /\ mode = "build"
    /\ pc = "start"
    /\ \E ok \in BOOLEAN :
          IF ok
          THEN /\ pc' = "glob"
               /\ globIdx' = 1
               /\ templateData' = EmptyTemplateData
               /\ err' = NoErr
          ELSE /\ pc' = "done"
               /\ err' = "template error"
               /\ UNCHANGED <<globIdx, templateData>>
    /\ UNCHANGED <<idleVars, schema, visitedFiles, walk, printed, output>>

\* for _, schemaFileGlob := range target.SchemaFile: the walk of one glob starts
StartWalk ==
    /\ mode = "build"
    /\ pc = "glob"
    /\ globIdx <= Len(target.SchemaFile)
    /\ walk' = WalkFiles(files, WalkPath(target.SchemaFile[globIdx]))
    /\ pc' = "walk"
    /\ UNCHANGED <<idleVars, templateData, schema, err, visitedFiles, globIdx, printed,
                   output>>

\* the callback of fs.WalkDir without the test of visitedFiles
VisitFileRepeating ==
    /\ mode = "build"
    /\ pc = "walk"
    /\ walk # <<>>
    /\ LET schemaFilePath == Head(walk)
           absGlob == target.SchemaFile[globIdx]
       IN  IF ~Match(absGlob, schemaFilePath)
           THEN /\ walk' = Tail(walk)
                /\ UNCHANGED <<pc, templateData, schema, err, visitedFiles, printed>>
           ELSE \E r \in {transformGraphql(templateData, files[schemaFilePath])} :
                    /\ printed' = Append(printed, schemaFilePath)
                    /\ schema' = files[schemaFilePath]
                    /\ templateData' = r.td
                    /\ IF r.err # NoErr
                       THEN /\ err' = r.err
                            /\ pc' = "done"
                            /\ UNCHANGED <<visitedFiles, walk>>
                       ELSE /\ visitedFiles' = visitedFiles \cup {schemaFilePath}
                            /\ walk' = Tail(walk)
                            /\ UNCHANGED <<pc, err>>
    /\ UNCHANGED <<idleVars, globIdx, output>>

\* the callback of fs.WalkDir keeping the error of transformGraphql and
\* returning nil, so that the walk goes on
VisitFileContinuing ==
    /\ mode = "build"
    /\ pc = "walk"
    /\ walk # <<>>
    /\ LET schemaFilePath == Head(walk)
           absGlob == target.SchemaFile[globIdx]
       IN  IF schemaFilePath \in visitedFiles \/ ~Match(absGlob, schemaFilePath)
           THEN UNCHANGED <<templateData, schema, err, visitedFiles, printed>>
           ELSE \E r \in {transformGraphql(templateData, files[schemaFilePath])} :
                    /\ printed' = Append(printed, schemaFilePath)
                    /\ schema' = files[schemaFilePath]
                    /\ templateData' = r.td
                    /\ err' = r.err
                    /\ visitedFiles' = visitedFiles \cup {schemaFilePath}
    /\ walk' = Tail(walk)
    /\ UNCHANGED <<idleVars, pc, globIdx, output>>

\* the callback of fs.WalkDir on the next file
VisitFile ==
    /\ mode = "build"
    /\ pc = "walk"
    /\ walk # <<>>
    /\ LET schemaFilePath == Head(walk)
           absGlob == target.SchemaFile[globIdx]
       IN  IF schemaFilePath \in visitedFiles \/ ~Match(absGlob, schemaFilePath)
           THEN /\ walk' = Tail(walk)
                /\ UNCHANGED <<pc, templateData, schema, err, visitedFiles, printed>>
           ELSE \E r \in {transformGraphql(templateData, files[schemaFilePath])} :
                    /\ printed' = Append(printed, schemaFilePath)
                    /\ schema' = files[schemaFilePath]
                    /\ templateData' = r.td
                    /\ IF r.err # NoErr
                       THEN /\ err' = r.err
                            /\ pc' = "done"
                            /\ UNCHANGED <<visitedFiles, walk>>
                       ELSE /\ visitedFiles' = visitedFiles \cup {schemaFilePath}
                            /\ walk' = Tail(walk)
                            /\ UNCHANGED <<pc, err>>
    /\ UNCHANGED <<idleVars, globIdx, output>>

\* fs.WalkDir returns nil: on to the next glob
EndWalk ==
    /\ mode = "build"
    /\ pc = "walk"
    /\ walk = <<>>
    /\ globIdx' = globIdx + 1
    /\ pc' = "glob"
    /\ UNCHANGED <<idleVars, templateData, schema, err, visitedFiles, walk, printed, output>>

\* sort.SliceStable(templateData.Fragments, ...), once the globs are done
SortFragments ==
    /\ mode = "build"
    /\ pc = "glob"
    /\ globIdx > Len(target.SchemaFile)
    /\ templateData' = [templateData EXCEPT !.Fragments = SliceStable(templateData.Fragments)]
    /\ pc' = "create"
    /\ UNCHANGED <<idleVars, schema, err, visitedFiles, globIdx, walk, printed, output>>

\* os.Create(target.OutputFile)
CreateOutput ==
    /\ mode = "build"
    /\ pc = "create"
    /\ \E ok \in BOOLEAN :
          IF ok
          THEN /\ output' = "created"
               /\ pc' = "render"
               /\ err' = NoErr
          ELSE /\ pc' = "done"
               /\ err' = "create error"
               /\ UNCHANGED output
    /\ UNCHANGED <<idleVars, templateData, schema, visitedFiles, globIdx, walk, printed>>

\* tmpl.Execute(fd, templateData)
Render ==
    /\ mode = "build"
    /\ pc = "render"
    /\ \E ok \in BOOLEAN :
          IF ok
          THEN /\ output' = "rendered"
               /\ err' = NoErr
          ELSE /\ err' = "execute error"
               /\ UNCHANGED output
    /\ pc' = "done"
    /\ UNCHANGED <<idleVars, templateData, schema, visitedFiles, globIdx, walk, printed>>

Next ==
    \/ ReadTemplate
    \/ StartWalk
    \/ VisitFile
    \/ EndWalk
    \/ SortFragments
    \/ CreateOutput
    \/ Render

Spec == Init /\ [][Next]_vars

-----------------------------------------------------------------------------
(* Claims about the value serializer (checked under ValueSpec) *)

s_true == <<"t", "r", "u", "e">>
s_false == <<"f", "a", "l", "s", "e">>

\* C1: a BooleanValue node serializes to the token true when its value is
\* true and to the token false when its value is false.
C1_BooleanTokens ==
    (pc = "done" /\ node.Kind = "BooleanValue")
        => out = Ok(IF node.Value.b THEN s_true ELSE s_false)

RoundTrips(n, o) ==
    /\ o.err = NoErr
    /\ ParseValueText(o.val).ok
    /\ Equivalent(ParseValueText(o.val).node, n)

\* C2: the text returned for a valid value node is valid GraphQL value text
\* that parses back to a node equivalent to the original; stated for the
\* StringValue nodes the claim singles out.
C2_RoundTrip ==
    (pc = "done" /\ ValidValue(node) /\ node.Kind = "StringValue")
        => RoundTrips(node, out)

\* the texts of a sequence of nodes, each serialized on its own
ItemTexts(items) == [i \in 1..Len(items) |-> transformFieldArgumentValue(items[i]).val]
FieldTexts(fields) ==
    [i \in 1..Len(fields) |->
        fields[i].Name \o <<":", " ">> \o transformFieldArgumentValue(fields[i].Value).val]

RECURSIVE Separated(_, _)
\* texts[1..n] with ", " between neighbours, built from the left
Separated(texts, n) ==
    IF n = 0 THEN <<>>
    ELSE IF n = 1 THEN texts[1]
    ELSE Separated(texts, n - 1) \o <<",", " ">> \o texts[n]

s_scenarioD ==
    <<"{", "k", "e", "y", ":", " ", "v", "a", "l", ",", " ",
      "l", "i", "s", "t", ":", " ", "[", "1", ",", " ", "2", "]", "}">>

-----------------------------------------------------------------------------
(* Claims about the selection transformer and the dependency collector      *)
(* (checked under FragmentSpec)                                            *)

Built == mode = "fragment" /\ pc = "done" /\ frag.err = NoErr

\* the selection alone in a selection set, transformed
TransformOfOne(sel) == transformGraphqlField(SelectionSet(<<sel>>))

HasSelectionSet(sel) ==
    \/ sel.Kind = "InlineFragment"
    \/ sel.Kind = "Field" /\ ~sel.SelectionSet.isNil

RECURSIVE Corresponds(_, _)
Corresponds(sels, fields) ==
    /\ Len(fields) = Len(sels)
    /\ \A i \in 1..Len(sels) :
          /\ TransformOfOne(sels[i]).err = NoErr
          /\ fields[i] = TransformOfOne(sels[i]).val.elems[1]
          /\ HasSelectionSet(sels[i]) =>
                Corresponds(sels[i].SelectionSet.Selections, fields[i].SubFields.elems)

\* C4: on success the Field sequence has as many elements as the selection
\* set has selections, and the element at index i is the transform of the
\* selection at index i, at every nesting level.
C4_IndexCorrespondence ==
    Built => Corresponds(fragmentDef.SelectionSet.Selections, frag.val.Fields.elems)

C4_Witness ==
    /\ Built
    /\ Len(frag.val.Fields.elems) >= 2
    /\ frag.val.Fields.elems[1] # frag.val.Fields.elems[2]
    /\ Len(frag.val.Fields.elems[1].SubFields.elems) >= 1

PlainShape(sel, f) ==
    /\ f.IsSpread = FALSE
    /\ f.Name = sel.Name
    /\ f.SourceType = <<>>
    /\ f.Arguments.isNil <=> Len(sel.Arguments) = 0
    /\ Len(f.Arguments.elems) = Len(sel.Arguments)
    /\ f.SubFields.isNil <=> sel.SelectionSet.isNil

SpreadShape(sel, f) ==
    /\ f.IsSpread = TRUE
    /\ f.Name = sel.Name
    /\ f.SourceType = <<>>
    /\ f.SubFields.isNil
    /\ f.Arguments.isNil

InlineShape(sel, f) ==
    /\ f.IsSpread = TRUE
    /\ f.Name = <<>>
    /\ f.SourceType = sel.TypeCondition.Name
    /\ f.Arguments.isNil
    /\ f.SubFields = transformGraphqlField(sel.SelectionSet).val
    /\ ~f.SubFields.isNil

RECURSIVE Shaped(_, _)
Shaped(sels, fields) ==
    /\ Len(fields) = Len(sels)
    /\ \A i \in 1..Len(sels) :
          /\ CASE sels[i].Kind = "Field" -> PlainShape(sels[i], fields[i])
               [] sels[i].Kind = "FragmentSpread" -> SpreadShape(sels[i], fields[i])
               [] sels[i].Kind = "InlineFragment" -> InlineShape(sels[i], fields[i])
               [] OTHER -> FALSE
          /\ HasSelectionSet(sels[i]) =>
                Shaped(sels[i].SelectionSet.Selections, fields[i].SubFields.elems)

\* C5: every Field of a produced tree is a plain field (IsSpread false, Name
\* the field name, no SourceType), a fragment spread (IsSpread true, Name the
\* fragment name, no SubFields, SourceType or Arguments) or an inline
\* fragment (IsSpread true, Name empty, SourceType the type condition,
\* SubFields the transform of its selection set); Arguments is absent
\* exactly when there are no arguments and SubFields of a plain field is
\* absent exactly when it has no selection set.
C5_FieldShapes ==
    Built => Shaped(fragmentDef.SelectionSet.Selections, frag.val.Fields.elems)

C5_Witness ==
    /\ Built
    /\ \E i, j, k \in 1..Len(frag.val.Fields.elems) :
          LET f == frag.val.Fields.elems[i]
              g == frag.val.Fields.elems[j]
              h == frag.val.Fields.elems[k]
          IN  /\ ~f.IsSpread /\ ~f.Arguments.isNil
              /\ g.IsSpread /\ g.Name # <<>>
              /\ h.IsSpread /\ h.Name = <<>> /\ h.SourceType = s_User

RECURSIVE SpreadNames(_, _)
\* the names of the fragment spreads of sels[i..], in document order
SpreadNames(sels, i) ==
    IF i > Len(sels) THEN <<>>
    ELSE (CASE sels[i].Kind = "FragmentSpread" -> <<sels[i].Name>>
            [] HasSelectionSet(sels[i]) -> SpreadNames(sels[i].SelectionSet.Selections, 1)
            [] OTHER -> <<>>)
         \o SpreadNames(sels, i + 1)

\* C6: FragmentDependencies holds the names of the fragment spreads anywhere
\* in the field tree, one per occurrence, in document order, inline
\* fragments adding no name; it is nil, not empty, when there is none.
C6_Dependencies ==
    Built =>
        LET names == SpreadNames(fragmentDef.SelectionSet.Selections, 1)
            deps == frag.val.FragmentDependencies
        IN  /\ Len(deps.elems) = Len(names)
            /\ deps.elems = names
            /\ deps.isNil <=> Len(names) = 0

C6_Witness ==
    /\ Built
    /\ frag.val.Name = s_F
    /\ frag.val.FragmentDependencies = Slice(<<s_F, s_F>>)
    /\ Len(frag.val.Fields.elems) = 2
    /\ frag.val.Fields.elems[1].IsSpread
    /\ frag.val.Fields.elems[1].Name = <<>>

-----------------------------------------------------------------------------
(* Claims about the reordering pass of buildTargets (checked under Spec) *)

\* the step in which sort.SliceStable runs on templateData.Fragments
Sorted == mode = "build" /\ pc = "glob" /\ pc' = "create"

DependencyCount(fragment) == Len(fragment.FragmentDependencies.elems)

\* the fragments of fragments that have n dependencies, in their order
WithCount(fragments, n) == SelectSeq(fragments, LAMBDA f : DependencyCount(f) = n)

\* the dependency counts that occur among fragments
Counts(fragments) == {DependencyCount(fragments[i]) : i \in 1..Len(fragments)}

\* C7: the reordering pass is stable and yields a permutation: for every
\* dependency count, the fragments that have that count are the same after
\* the pass as before it and stand in the same relative (encounter) order,
\* and the pass neither adds nor drops a fragment.
C7_StableSort ==
    [][Sorted =>
          /\ Len(templateData'.Fragments.elems) = Len(templateData.Fragments.elems)
          /\ \A n \in Counts(templateData.Fragments.elems)
                         \cup Counts(templateData'.Fragments.elems) :
                WithCount(templateData'.Fragments.elems, n) =
                    WithCount(templateData.Fragments.elems, n)]_vars

\* f.graphql holds G then F, q.graphql holds H then K: appended as G, F, H,
\* K, the fragments stand as F, K, G, H once the pass has run
C7_Witness ==
    /\ mode = "build"
    /\ pc = "create"
    /\ printed = <<PathF, PathQ>>
    /\ Len(templateData.Fragments.elems) = 4
    /\ [i \in 1..4 |-> templateData.Fragments.elems[i].Name] = <<s_F, s_K, s_G, s_H>>
    /\ [i \in 1..4 |-> DependencyCount(templateData.Fragments.elems[i])] = <<0, 0, 1, 2>>

NonDecreasing(fragments) ==
    \A i \in 1..Len(fragments), j \in 1..Len(fragments) :
        i < j => DependencyCount(fragments[i]) <= DependencyCount(fragments[j])

\* C18: after the reordering pass the lengths of FragmentDependencies are
\* non-decreasing along Fragments, so that every fragment without
\* dependencies precedes every fragment with one; the pass leaves Queries
\* and Mutations as they are, and nothing changes TemplateData after it.
C18_SortedByCount ==
    [][/\ Sorted => (/\ NonDecreasing(templateData'.Fragments.elems)
                     /\ \A i \in 1..Len(templateData'.Fragments.elems),
                           j \in 1..Len(templateData'.Fragments.elems) :
                           (/\ DependencyCount(templateData'.Fragments.elems[i]) = 0
                            /\ DependencyCount(templateData'.Fragments.elems[j]) > 0)
                               => i < j
                     /\ templateData'.Queries = templateData.Queries
                     /\ templateData'.Mutations = templateData.Mutations)
       /\ (mode = "build" /\ pc \in {"create", "render"})
              => templateData' = templateData]_vars

\* f.graphql holds H, Q2, K and q.graphql holds G, F: appended as H, K, G,
\* F, the fragments stand as K, F, G, H when the output file is created
C18_Witness ==
    /\ mode = "build"
    /\ pc = "render"
    /\ printed = <<PathF, PathQ>>
    /\ files[PathF] = SchemaText(<<FragmentH, QueryQ2, FragmentK>>)
    /\ Len(templateData.Fragments.elems) = 4
    /\ [i \in 1..4 |-> templateData.Fragments.elems[i].Name] = <<s_K, s_F, s_G, s_H>>
    /\ [i \in 1..4 |-> DependencyCount(templateData.Fragments.elems[i])] = <<0, 0, 1, 2>>
    /\ Len(templateData.Queries.elems) = 1

\* the files matched by a glob of the target
MatchedFiles ==
    {p \in DOMAIN files : \E i \in 1..Len(target.SchemaFile) : Match(target.SchemaFile[i], p)}

\* the number of times path was handed to transformGraphql
TimesTransformed(path) == Cardinality({i \in 1..Len(printed) : printed[i] = path})

\* C19: within one target a schema file is transformed at most once: by the
\* first glob that matches it, never again by a later glob or walk, and not
\* at all when no glob matches it; when the globs are done every matched
\* file has been transformed exactly once.
C19_AtMostOnce ==
    [][/\ (mode = "build" /\ printed' # printed)
             => (/\ printed' = Append(printed, Head(walk))
                 /\ TimesTransformed(Head(walk)) = 0
                 /\ Match(target.SchemaFile[globIdx], Head(walk))
                 /\ \A i \in 1..(globIdx - 1) : ~Match(target.SchemaFile[i], Head(walk)))
       /\ (mode = "build" /\ pc' = "create")
             => \A path \in DOMAIN files :
                   TimesTransformed(path)' = IF path \in MatchedFiles THEN 1 ELSE 0]_vars

\* a/f.graphql and a/q.graphql match both globs, a/notes.md the second
\* only, a/b/g.graphql none
C19_Witness ==
    /\ mode = "build"
    /\ pc = "create"
    /\ target = [SchemaFile |-> <<<<"a", "*.graphql">>, <<"a", "*">>>>]
    /\ printed = <<PathF, PathQ, PathNotes>>
    /\ visitedFiles = {PathF, PathQ, PathNotes}

\* the step in which transformGraphql returns an error to the callback
VisitFails ==
    /\ mode = "build"
    /\ pc = "walk"
    /\ walk # <<>>
    /\ Head(walk) \notin visitedFiles
    /\ Match(target.SchemaFile[globIdx], Head(walk))
    /\ transformGraphql(templateData, files[Head(walk)]).err # NoErr

\* buildTargets has returned the error of transformGraphql
Aborted ==
    /\ mode = "build"
    /\ pc = "done"
    /\ err \notin {NoErr, "template error", "create error", "execute error"}

\* every matched file has been transformed and the fragments are reordered
Complete ==
    /\ globIdx > Len(target.SchemaFile)
    /\ visitedFiles = MatchedFiles
    /\ Len(printed) = Cardinality(MatchedFiles)
    /\ \A i \in 1..(Len(templateData.Fragments.elems) - 1) :
          DependencyCount(templateData.Fragments.elems[i])
              <= DependencyCount(templateData.Fragments.elems[i + 1])

\* C15: once transformGraphql returns an error for a schema file,
\* buildTargets returns: no later file is read or transformed, the
\* reordering pass does not run and the output file is neither created nor
\* written; and the output file is created and rendered only after every
\* matched file has been transformed and the fragments reordered.
C15_AbortOnError ==
    [][/\ VisitFails => (/\ pc' = "done"
                         /\ Aborted'
                         /\ output' = "absent"
                         /\ visitedFiles' = visitedFiles)
       /\ ~Aborted
       /\ output' # "absent" => Complete']_vars

\* a/f.graphql holds a type definition: a/q.graphql is never read
C15_Witness ==
    /\ Aborted
    /\ target = [SchemaFile |-> <<<<"a", "*.graphql">>, <<"a", "*", "*">>>>]
    /\ files[PathF] = SchemaText(<<FragmentF, ObjectDefinition>>)
    /\ err = "Unknown definition kind"
    /\ printed = <<PathF>>
    /\ visitedFiles = {}
    /\ output = "absent"

-----------------------------------------------------------------------------
(* Claims about transformGraphql (checked under DocumentSpec) *)

\* the step in which transformGraphql runs on schema
Transformed == mode = "document" /\ pc = "start" /\ pc' = "done"

Returned == mode = "document" /\ pc = "done"

IsFragment(d) == d.Kind = "FragmentDefinition"
IsOperation(d) == d.Kind = "OperationDefinition"
IsQuery(d) == IsOperation(d) /\ d.Operation = "query"
IsMutation(d) == IsOperation(d) /\ d.Operation = "mutation"
IsOtherOperation(d) == IsOperation(d) /\ d.Operation \notin {"query", "mutation"}
IsOtherDefinition(d) == ~IsFragment(d) /\ ~IsOperation(d)

\* the definition can be built: its builder returns no error
Builds(d) ==
    \/ IsFragment(d) /\ transformFragment(d).err = NoErr
    \/ (IsQuery(d) \/ IsMutation(d)) /\ transformOperation(d).err = NoErr

\* the index of the first definition that cannot be built, Len + 1 if none
FirstFailing(defs) ==
    IF \A i \in 1..Len(defs) : Builds(defs[i]) THEN Len(defs) + 1
    ELSE CHOOSE k \in 1..Len(defs) :
             /\ ~Builds(defs[k])
             /\ \A i \in 1..(k - 1) : Builds(defs[i])

FragmentsOf(defs) ==
    LET ds == SelectSeq(defs, IsFragment)
    IN  [i \in 1..Len(ds) |-> transformFragment(ds[i]).val]
QueriesOf(defs) ==
    LET ds == SelectSeq(defs, IsQuery)
    IN  [i \in 1..Len(ds) |-> transformOperation(ds[i]).val]
MutationsOf(defs) ==
    LET ds == SelectSeq(defs, IsMutation)
    IN  [i \in 1..Len(ds) |-> transformOperation(ds[i]).val]

\* a definition that is neither operation nor fragment comes first among
\* those that cannot be built
OtherDefinitionFails(defs) ==
    /\ FirstFailing(defs) <= Len(defs)
    /\ IsOtherDefinition(defs[FirstFailing(defs)])

\* C8 (as claimed): when the document holds a definition that is neither an
\* operation nor a fragment, transformGraphql fails with the unknown
\* definition kind error and TemplateData equals its value before the call.
C8_NothingRetained ==
    [][(Transformed /\ OtherDefinitionFails(schema.Definitions))
          => /\ err' = "Unknown definition kind"
             /\ templateData' = templateData]_vars

\* C8 (amended): transformGraphql fails with the unknown definition kind
\* error, and TemplateData holds, appended in document order, the
\* definitions that precede the offending one and none that follow it.
C8_PrecedingRetained ==
    [][(Transformed /\ OtherDefinitionFails(schema.Definitions))
          => LET before == SubSeq(schema.Definitions, 1,
                                  FirstFailing(schema.Definitions) - 1)
             IN  /\ err' = "Unknown definition kind"
                 /\ templateData'.Fragments.elems =
                        templateData.Fragments.elems \o FragmentsOf(before)
                 /\ templateData'.Queries.elems =
                        templateData.Queries.elems \o QueriesOf(before)
                 /\ templateData'.Mutations.elems =
                        templateData.Mutations.elems \o MutationsOf(before)]_vars

C8_Witness ==
    /\ Returned
    /\ schema = SchemaText(<<FragmentF, ObjectDefinition, MutationM2>>)
    /\ err = "Unknown definition kind"
    /\ Len(templateData.Fragments.elems) = 2
    /\ templateData.Fragments.elems[2].Name = s_F
    /\ Len(templateData.Mutations.elems) = 1

\* C9: when the parser fails on the schema text, transformGraphql returns
\* an error.
C9_ParseFailureIsError == (Returned /\ schema.malformed) => err # NoErr

\* C10: the built Operations are appended to Queries when the keyword is
\* query and to Mutations when it is mutation, each in document order; an
\* operation with another keyword makes transformGraphql return the unknown
\* operation kind error and appends nothing.
C10_Classification ==
    [][(Transformed /\ ~schema.malformed /\ err' # Panic)
          => LET defs == schema.Definitions
                 k == FirstFailing(defs)
                 before == SubSeq(defs, 1, k - 1)
             IN  /\ templateData'.Queries.elems =
                        templateData.Queries.elems \o QueriesOf(before)
                 /\ templateData'.Mutations.elems =
                        templateData.Mutations.elems \o MutationsOf(before)
                 /\ (k <= Len(defs) /\ IsOtherOperation(defs[k]))
                        <=> err' = "Unknown operation kind"]_vars

C10_Witness ==
    /\ Returned
    /\ schema = SchemaText(<<QueryQ, MutationM2, SubscriptionS>>)
    /\ err = "Unknown operation kind"
    /\ Len(templateData.Queries.elems) = 2
    /\ templateData.Queries.elems[1].Name = s_Q2
    /\ templateData.Queries.elems[2].Name = s_Q
    /\ Len(templateData.Mutations.elems) = 2
    /\ templateData.Mutations.elems[1].Name = s_M
    /\ templateData.Mutations.elems[2].Name = s_M2

\* the operation built for d were it given a name
BuiltAsNamed(d) == transformOperation([d EXCEPT !.Name = Name(s_Q)])

\* C11: for an anonymous operation (no name node) transformOperation
\* succeeds and returns an Operation whose Name is the empty string, its
\* variables and fields being those built for a named operation: a document
\* that starts with an anonymous query gets that Operation appended to
\* Queries.
C11_AnonymousOperation ==
    [][(/\ Transformed
        /\ ~schema.malformed
        /\ Len(schema.Definitions) > 0
        /\ IsQuery(schema.Definitions[1])
        /\ schema.Definitions[1].Name.isNil
        /\ BuiltAsNamed(schema.Definitions[1]).err = NoErr)
          => /\ err' # Panic
             /\ Len(templateData'.Queries.elems) > Len(templateData.Queries.elems)
             /\ templateData'.Queries.elems[Len(templateData.Queries.elems) + 1] =
                    [BuiltAsNamed(schema.Definitions[1]).val EXCEPT !.Name = <<>>]]_vars

IsPrefix(before, after) ==
    /\ Len(before) <= Len(after)
    /\ SubSeq(after, 1, Len(before)) = before

\* C13: a call of transformGraphql only appends: the elements Fragments,
\* Queries and Mutations held before the call are there afterwards, at the
\* same indices and with the same content, whether the call succeeds or
\* fails.
C13_OnlyAppends ==
    [][Transformed
          => /\ IsPrefix(templateData.Fragments.elems, templateData'.Fragments.elems)
             /\ IsPrefix(templateData.Queries.elems, templateData'.Queries.elems)
             /\ IsPrefix(templateData.Mutations.elems, templateData'.Mutations.elems)]_vars

\* on the TemplateData of earlier files (G; Q2; M) a document adds F, then fails
C13_Witness ==
    /\ Returned
    /\ schema = SchemaText(<<FragmentF, SubscriptionS>>)
    /\ err = "Unknown operation kind"
    /\ [i \in 1..Len(templateData.Fragments.elems) |->
           templateData.Fragments.elems[i].Name] = <<s_G, s_F>>
    /\ Len(templateData.Queries.elems) = 1
    /\ Len(templateData.Mutations.elems) = 1

RECURSIVE Flatten(_)
Flatten(seqs) == IF seqs = <<>> THEN <<>> ELSE Head(seqs) \o Flatten(Tail(seqs))

RECURSIVE ValueErrors(_)
\* the failures of the nodes of a value, in document order
ValueErrors(n) ==
    CASE n.Kind = "Variable" -> <<>>
      [] n.Kind = "ListValue" ->
            Flatten([i \in 1..Len(n.Value) |-> ValueErrors(n.Value[i])])
      [] n.Kind = "ObjectValue" ->
            Flatten([i \in 1..Len(n.Value) |-> ValueErrors(n.Value[i].Value)])
      [] n.Kind \in ScalarKinds ->
            IF n.Value.type \in {"string", "bool"} THEN <<>> ELSE <<"invalid " \o n.Kind>>
      [] OTHER -> <<"Unknown argument value kind: " \o n.Kind>>

RECURSIVE TypeErrors(_)
TypeErrors(t) ==
    IF t.Kind = "Named" THEN <<>>
    ELSE IF t.Kind \in {"List", "NonNull"} THEN TypeErrors(t.Type)
    ELSE <<"Unknown type kind">>

RECURSIVE SelectionErrors(_)
\* the failures of the argument values of a selection set, in document order
SelectionErrors(selset) ==
    IF selset.isNil THEN <<>>
    ELSE Flatten([i \in 1..Len(selset.Selections) |->
             LET selection == selset.Selections[i]
             IN  CASE selection.Kind = "Field" ->
                        Flatten([j \in 1..Len(selection.Arguments) |->
                                    ValueErrors(selection.Arguments[j].Value)])
                        \o SelectionErrors(selection.SelectionSet)
                   [] selection.Kind = "InlineFragment" ->
                        SelectionErrors(selection.SelectionSet)
                   [] OTHER -> <<>>])

\* the failures of the variable types and argument values of a definition
NestedErrors(d) ==
    IF IsOperation(d)
    THEN Flatten([i \in 1..Len(d.VariableDefinitions) |->
                     TypeErrors(d.VariableDefinitions[i].Type)])
         \o SelectionErrors(d.SelectionSet)
    ELSE IF IsFragment(d) THEN SelectionErrors(d.SelectionSet)
    ELSE <<>>

\* the index of the first definition in which a type or a value fails, the
\* definitions in front of it being built; 0 if there is none
FirstNestedFailure(defs) ==
    IF \E k \in 1..Len(defs) :
          /\ NestedErrors(defs[k]) # <<>>
          /\ \A i \in 1..(k - 1) : NestedErrors(defs[i]) = <<>> /\ Builds(defs[i])
    THEN CHOOSE k \in 1..Len(defs) :
             /\ NestedErrors(defs[k]) # <<>>
             /\ \A i \in 1..(k - 1) : NestedErrors(defs[i]) = <<>> /\ Builds(defs[i])
    ELSE 0

\* C14: when the serialization of an argument value nested anywhere in a
\* definition fails, or that of a variable type, transformGraphql returns
\* that same error and appends no Fragment or Operation for the failing
\* definition: TemplateData gains the definitions in front of it only.
C14_FailurePropagates ==
    [][(/\ Transformed
        /\ ~schema.malformed
        /\ FirstNestedFailure(schema.Definitions) > 0
        /\ err' # Panic)
          => LET k == FirstNestedFailure(schema.Definitions)
                 before == SubSeq(schema.Definitions, 1, k - 1)
             IN  /\ err' = Head(NestedErrors(schema.Definitions[k]))
                 /\ templateData'.Fragments.elems =
                        templateData.Fragments.elems \o FragmentsOf(before)
                 /\ templateData'.Queries.elems =
                        templateData.Queries.elems \o QueriesOf(before)
                 /\ templateData'.Mutations.elems =
                        templateData.Mutations.elems \o MutationsOf(before)]_vars

\* mutation D fails on a value inside an object, inside an inline fragment,
\* inside a sub-field: Q2 is appended, D and G are not
C14_Witness ==
    /\ Returned
    /\ schema = SchemaText(<<QueryQ2, MutationD, FragmentG>>)
    /\ err = "Unknown argument value kind: OtherValue"
    /\ Len(templateData.Queries.elems) = 1
    /\ Len(templateData.Mutations.elems) = 0
    /\ Len(templateData.Fragments.elems) = 0

\* every operation of the document has a name
AllNamed(defs) == \A i \in 1..Len(defs) : IsOperation(defs[i]) => ~defs[i].Name.isNil

\* C20: for a document the parser accepts, transformGraphql returns success
\* or an error and never aborts abnormally; in particular an inline fragment
\* without a type condition is transformed or reported as an error.
C20_NoAbort ==
    (Returned /\ ~schema.malformed /\ AllNamed(schema.Definitions)) => err # Panic

-----------------------------------------------------------------------------
(* Claims about transformOperation (checked under OperationSpec) *)

RECURSIVE TypeText(_)
\* the text of a type reference: its name, [inner] for a list, inner! for
\* a non-null type
TypeText(t) ==
    IF t.Kind = "Named" THEN t.Name
    ELSE IF t.Kind = "List" THEN <<"[">> \o TypeText(t.Type) \o <<"]">>
    ELSE TypeText(t.Type) \o <<"!">>

RECURSIVE IsTypeReference(_)
\* built from named types, list wrappers and non-null wrappers only
IsTypeReference(t) ==
    \/ t.Kind = "Named"
    \/ t.Kind \in {"List", "NonNull"} /\ IsTypeReference(t.Type)

OperationBuilt == mode = "operation" /\ pc = "done"

\* C12: for type references built from named types, list wrappers and
\* non-null wrappers, transformVariableType returns the name, [inner] or
\* inner! recursively, and transformOperation emits one Variable per
\* variable definition, in declaration order, its Name without the $ sigil.
C12_VariableTypes ==
    (/\ OperationBuilt
     /\ \A i \in 1..Len(operationDef.VariableDefinitions) :
            IsTypeReference(operationDef.VariableDefinitions[i].Type))
        => /\ operationOut.err = NoErr
           /\ Len(operationOut.val.Variables.elems) = Len(operationDef.VariableDefinitions)
           /\ \A i \in 1..Len(operationDef.VariableDefinitions) :
                 /\ operationOut.val.Variables.elems[i].Name =
                        operationDef.VariableDefinitions[i].Variable
                 /\ operationOut.val.Variables.elems[i].Name[1] # "$"
                 /\ operationOut.val.Variables.elems[i].Type =
                        TypeText(operationDef.VariableDefinitions[i].Type)

\* Scenario C: query Q($ids: [ID!]!) gives the variable ids of type [ID!]!
C12_Witness ==
    /\ OperationBuilt
    /\ operationDef = QueryQ
    /\ operationOut.err = NoErr
    /\ operationOut.val.Variables.elems =
           <<GoVariable(s_ids, <<"[", "I", "D", "!", "]", "!">>)>>

-----------------------------------------------------------------------------
(* Claims about the case helpers (checked under CaseSpec) *)

\* a name: a letter or _, then letters, digits and _
IsIdentifier(text) ==
    /\ Len(text) > 0
    /\ text[1] \in NameStart
    /\ \A i \in 1..Len(text) : text[i] \in NameChar

RECURSIVE TokensFrom(_, _, _, _)
\* the tokens of text: a token starts at every uppercase letter and after
\* every underscore, the underscore is dropped, every other character goes
\* on with the token, in lower case; no token is empty
TokensFrom(text, i, tokens, token) ==
    IF i > Len(text) THEN (IF token # <<>> THEN Append(tokens, token) ELSE tokens)
    ELSE IF text[i] = "_" \/ text[i] \in Upper
    THEN TokensFrom(text, i + 1,
                    IF token # <<>> THEN Append(tokens, token) ELSE tokens,
                    IF text[i] = "_" THEN <<>> ELSE <<ToLowerChar(text[i])>>)
    ELSE TokensFrom(text, i + 1, tokens, Append(token, text[i]))

Tokens(text) == TokensFrom(text, 1, <<>>, <<>>)

Split == mode = "case" /\ pc # "start"

\* C16: splitStringByCase splits an identifier into its lowercase, non-empty
\* tokens: a token starts at every uppercase letter and after every
\* underscore, the underscore is dropped, and a run of k uppercase letters
\* gives k one-letter tokens.
C16_Tokens == (Split /\ IsIdentifier(str)) => words.elems = Tokens(str)

Capitalized(token) == <<ToUpperChar(token[1])>> \o Tail(token)

Cased == mode = "case" /\ pc = "done"

\* C17: camelCase returns the tokens of splitStringByCase concatenated, the
\* first in lower case and the later ones capitalized, pascalCase returns
\* them concatenated, each capitalized; the two results differ at most in
\* the case of their first character.
C17_CamelAndPascal ==
    Cased
        => /\ camel = Flatten([i \in 1..Len(words.elems) |->
                          IF i = 1 THEN words.elems[i] ELSE Capitalized(words.elems[i])])
           /\ pascal = Flatten([i \in 1..Len(words.elems) |-> Capitalized(words.elems[i])])
           /\ Len(camel) = Len(pascal)
           /\ \A i \in 2..Len(camel) : camel[i] = pascal[i]
           /\ Len(camel) > 0 => camel[1] = ToLowerChar(pascal[1])

\* helloHTTP gives helloHTTP and HelloHTTP
C17_Witness ==
    /\ Cased
    /\ str = <<"h", "e", "l", "l", "o", "H", "T", "T", "P">>
    /\ Len(words.elems) = 5
    /\ camel = <<"h", "e", "l", "l", "o", "H", "T", "T", "P">>
    /\ pascal = <<"H", "e", "l", "l", "o", "H", "T", "T", "P">>

====
